---------------------------- MODULE Spec2Model ----------------------------
(***************************************************************************)
(* Lottery server of tp0-distribuidos.  Two implementations live in the    *)
(* repository and both are modelled here:                                  *)
(*   "app"    : server/app/net.py + app/protocol.py + app/service.py       *)
(*              (one-shot: FINISHED sockets are queued and answered with   *)
(*              WINNERS when the queue reaches clients_amount)             *)
(*   "common" : server/common/server.py + common/communication.py          *)
(*              (two-phase: FINISHED records the agency, REQUEST_WINNERS   *)
(*              asks for the list)                                         *)
(* Bytes are naturals 0..255, Python str values are sequences of code      *)
(* points, a socket is a connection number 1..MaxConns.                    *)
(***************************************************************************)
EXTENDS Integers, Sequences, FiniteSets, TLC

(***************************************************************************)
(* Bounds of the model                                                     *)
(***************************************************************************)
\* connections accepted beyond the expected number of agencies
MaxExtra == 1
\* frames one client writes on its connection
MaxFrames == 2
\* malformed frames written by all clients together
MaxBad == 1
\* NEW_BETS frames carrying bets written by all clients together
MaxBets == 1

(***************************************************************************)
(* Integers and strings on the wire                                        *)
(***************************************************************************)
\* int.from_bytes(b, byteorder="little", signed=True) for four bytes
FromLE32(b) ==
    b[1] + 256 * b[2] + 65536 * b[3]
      + 16777216 * (IF b[4] >= 128 THEN b[4] - 256 ELSE b[4])

\* int(value).to_bytes(4, byteorder="little", signed=True)
ToLE32(v) ==
    LET u == IF v < 0 THEN (v + 2147483647) + 1 ELSE v
        top == (u \div 16777216) + (IF v < 0 THEN 128 ELSE 0)
    IN  << u % 256, (u \div 256) % 256, (u \div 65536) % 256, top >>

IsCont(x) == x >= 128 /\ x <= 191

\* bytes.decode("utf-8"): [ok, s] with s the code points
RECURSIVE Utf8Decode(_)
Utf8Decode(b) ==
    IF b = << >> THEN [ok |-> TRUE, s |-> << >>]
    ELSE
      LET n == Len(b)
          b1 == b[1]
          width ==
            IF b1 < 128 THEN 1
            ELSE IF b1 >= 194 /\ b1 <= 223 /\ n >= 2 /\ IsCont(b[2]) THEN 2
            ELSE IF b1 >= 224 /\ b1 <= 239 /\ n >= 3 /\ IsCont(b[2]) /\ IsCont(b[3])
                    /\ (b1 = 224 => b[2] >= 160) /\ (b1 = 237 => b[2] <= 159) THEN 3
            ELSE IF b1 >= 240 /\ b1 <= 244 /\ n >= 4 /\ IsCont(b[2]) /\ IsCont(b[3])
                    /\ IsCont(b[4])
                    /\ (b1 = 240 => b[2] >= 144) /\ (b1 = 244 => b[2] <= 143) THEN 4
            ELSE 0
          cp ==
            CASE width = 1 -> b1
              [] width = 2 -> (b1 - 192) * 64 + (b[2] - 128)
              [] width = 3 -> (b1 - 224) * 4096 + (b[2] - 128) * 64 + (b[3] - 128)
              [] width = 4 -> (b1 - 240) * 262144 + (b[2] - 128) * 4096
                                + (b[3] - 128) * 64 + (b[4] - 128)
              [] OTHER -> 0
      IN  IF width = 0 THEN [ok |-> FALSE, s |-> << >>]
          ELSE LET rest == Utf8Decode(SubSeq(b, width + 1, n))
               IN  [ok |-> rest.ok, s |-> <<cp>> \o rest.s]

\* str.encode("utf-8")
RECURSIVE Utf8Encode(_)
Utf8Encode(s) ==
    IF s = << >> THEN << >>
    ELSE
      LET c == s[1]
          enc ==
            IF c < 128 THEN <<c>>
            ELSE IF c < 2048 THEN << 192 + (c \div 64), 128 + (c % 64) >>
            ELSE IF c < 65536 THEN
              << 224 + (c \div 4096), 128 + ((c \div 64) % 64), 128 + (c % 64) >>
            ELSE
              << 240 + (c \div 262144), 128 + ((c \div 4096) % 64),
                 128 + ((c \div 64) % 64), 128 + (c % 64) >>
      IN  enc \o Utf8Encode(Tail(s))

(***************************************************************************)
(* Opcodes                                                                 *)
(***************************************************************************)
\* app/protocol.py
NEW_BETS == 0
BETS_RECV_SUCCESS == 1
BETS_RECV_FAIL == 2
FINISHED == 3
\* app/protocol.py: WINNERS = 4; common/communication.py: REQUEST_WINNERS = 4
protocol_WINNERS == 4
REQUEST_WINNERS == 4
\* common/communication.py
communication_WINNERS == 5

\* "AGENCIA", "NOMBRE", "APELLIDO", "DOCUMENTO", "NACIMIENTO", "NUMERO"
K_AGENCIA == << 65, 71, 69, 78, 67, 73, 65 >>
K_NOMBRE == << 78, 79, 77, 66, 82, 69 >>
K_APELLIDO == << 65, 80, 69, 76, 76, 73, 68, 79 >>
K_DOCUMENTO == << 68, 79, 67, 85, 77, 69, 78, 84, 79 >>
K_NACIMIENTO == << 78, 65, 67, 73, 77, 73, 69, 78, 84, 79 >>
K_NUMERO == << 78, 85, 77, 69, 82, 79 >>
required == << K_AGENCIA, K_NOMBRE, K_APELLIDO, K_DOCUMENTO, K_NACIMIENTO, K_NUMERO >>

(***************************************************************************)
(* Frame codec: readers.  A reader works on buf, the bytes the peer has    *)
(* written and the server has not consumed, from offset pos.  st is "ok",  *)
(* "perr" (ProtocolError) or "eof" (the bytes ran out: EOFError once the   *)
(* peer has closed, a blocked recv_into until then).  A reader that calls  *)
(* another hands the result to the operator that models the lines after    *)
(* the call.                                                               *)
(***************************************************************************)
recv_exactly(buf, pos, n) ==
    IF n < 0 THEN [st |-> "perr", pos |-> pos, data |-> << >>]
    ELSE IF pos + n > Len(buf) THEN [st |-> "eof", pos |-> Len(buf), data |-> << >>]
    ELSE [st |-> "ok", pos |-> pos + n, data |-> SubSeq(buf, pos + 1, pos + n)]

read_u8_of(r) ==
    [st |-> r.st, pos |-> r.pos, val |-> IF r.st = "ok" THEN r.data[1] ELSE 0]

read_u8(buf, pos) == read_u8_of(recv_exactly(buf, pos, 1))

\* read_i32 after its recv_exactly(sock, 4)
read_i32_of(remaining, r) ==
    IF r.st = "ok"
    THEN [st |-> "ok", pos |-> r.pos, val |-> FromLE32(r.data), remaining |-> remaining - 4]
    ELSE [st |-> r.st, pos |-> r.pos, val |-> 0, remaining |-> remaining]

read_i32(buf, pos, remaining) ==
    IF remaining < 4
    THEN [st |-> "perr", pos |-> pos, val |-> 0, remaining |-> remaining]
    ELSE read_i32_of(remaining, recv_exactly(buf, pos, 4))

\* read_string after `.decode("utf-8")`
read_string_decoded(remaining, l, r, d) ==
    IF ~d.ok THEN [st |-> "perr", pos |-> r.pos, s |-> << >>, remaining |-> remaining]
    ELSE [st |-> "ok", pos |-> r.pos, s |-> d.s, remaining |-> l.remaining - l.val]

\* read_string after recv_exactly(sock, key_len)
read_string_text(remaining, l, r) ==
    IF r.st # "ok" THEN [st |-> r.st, pos |-> r.pos, s |-> << >>, remaining |-> remaining]
    ELSE read_string_decoded(remaining, l, r, Utf8Decode(r.data))

\* read_string after read_i32: `if key_len <= 0`, `if remaining < key_len`
read_string_len(buf, remaining, l) ==
    IF l.st # "ok" THEN [st |-> l.st, pos |-> l.pos, s |-> << >>, remaining |-> remaining]
    ELSE IF l.val <= 0 \/ l.remaining < l.val
    THEN [st |-> "perr", pos |-> l.pos, s |-> << >>, remaining |-> remaining]
    ELSE read_string_text(remaining, l, recv_exactly(buf, l.pos, l.val))

read_string(buf, pos, remaining) ==
    read_string_len(buf, remaining, read_i32(buf, pos, remaining))

\* NewBets.__read_pair after the value
read_pair_value(remaining, k, v) ==
    IF v.st # "ok"
    THEN [st |-> v.st, pos |-> v.pos, key |-> << >>, value |-> << >>,
          remaining |-> remaining]
    ELSE [st |-> "ok", pos |-> v.pos, key |-> k.s, value |-> v.s,
          remaining |-> v.remaining]

\* NewBets.__read_pair after the key
read_pair_key(buf, remaining, k) ==
    IF k.st # "ok"
    THEN [st |-> k.st, pos |-> k.pos, key |-> << >>, value |-> << >>,
          remaining |-> remaining]
    ELSE read_pair_value(remaining, k, read_string(buf, k.pos, k.remaining))

\* NewBets.__read_pair
read_pair(buf, pos, remaining) ==
    read_pair_key(buf, remaining, read_string(buf, pos, remaining))

\* the loop `for _ in range(0, n_pairs)` of NewBets.__read_bet with i rounds to
\* go; pairs is curr_bet as the list of its assignments
RECURSIVE read_pairs(_, _, _, _, _)
RECURSIVE read_pairs_next(_, _, _, _, _)
read_pairs_next(buf, remaining, i, pairs, p) ==
    IF p.st # "ok"
    THEN [st |-> p.st, pos |-> p.pos, pairs |-> pairs, remaining |-> remaining]
    ELSE read_pairs(buf, p.pos, p.remaining, i - 1, Append(pairs, << p.key, p.value >>))

read_pairs(buf, pos, remaining, i, pairs) ==
    IF i <= 0 THEN [st |-> "ok", pos |-> pos, pairs |-> pairs, remaining |-> remaining]
    ELSE read_pairs_next(buf, remaining, i, pairs, read_pair(buf, pos, remaining))

\* k in curr_bet
HasKey(pairs, k) == \E i \in 1..Len(pairs) : pairs[i][1] = k
\* curr_bet[k]: the last assignment to k wins
Lookup(pairs, k) ==
    LET last == CHOOSE i \in 1..Len(pairs) :
                  /\ pairs[i][1] = k
                  /\ \A j \in (i + 1)..Len(pairs) : pairs[j][1] # k
    IN  pairs[last][2]

RawBet(agency, first_name, last_name, document, birthdate, number) ==
    [agency |-> agency, first_name |-> first_name, last_name |-> last_name,
     document |-> document, birthdate |-> birthdate, number |-> number]

NoBet == RawBet(<< >>, << >>, << >>, << >>, << >>, << >>)

\* RawBet(curr_bet["AGENCIA"], ..., curr_bet["NUMERO"])
Found(pairs) ==
    RawBet(Lookup(pairs, K_AGENCIA), Lookup(pairs, K_NOMBRE), Lookup(pairs, K_APELLIDO),
           Lookup(pairs, K_DOCUMENTO), Lookup(pairs, K_NACIMIENTO), Lookup(pairs, K_NUMERO))

\* int(s) of utils.Bet: the value of a string of decimal digits
RECURSIVE ParseInt(_)
ParseInt(s) ==
    IF s = << >> THEN 0
    ELSE 10 * ParseInt(SubSeq(s, 1, Len(s) - 1)) + (s[Len(s)] - 48)

\* int(s) raises ValueError
IntFails(s) == s = << >> \/ \E i \in 1..Len(s) : s[i] < 48 \/ s[i] > 57

\* utils.Bet(agency, first_name, last_name, document, birthdate, number)
utils_Bet(rb) ==
    [agency |-> ParseInt(rb.agency), document |-> rb.document,
     number |-> ParseInt(rb.number)]

\* utils.Bet(...) raises ValueError
utils_Bet_fails(rb) == IntFails(rb.agency) \/ IntFails(rb.number)

\* NewBets.__read_bet after the pairs: the required keys, the bet.
\* common/communication.py builds the utils.Bet here and turns its ValueError
\* into a ProtocolError; app/protocol.py keeps the RawBet.
read_bet_pairs(server, remaining, ps) ==
    IF ps.st # "ok"
    THEN [st |-> ps.st, pos |-> ps.pos, bet |-> NoBet, remaining |-> remaining]
    ELSE IF \/ \E i \in 1..Len(required) : ~HasKey(ps.pairs, required[i])
            \/ (server = "common" /\ utils_Bet_fails(Found(ps.pairs)))
    THEN [st |-> "perr", pos |-> ps.pos, bet |-> NoBet, remaining |-> remaining]
    ELSE [st |-> "ok", pos |-> ps.pos, bet |-> Found(ps.pairs), remaining |-> ps.remaining]

\* NewBets.__read_bet after n_pairs: `if n_pairs != 6: raise`
read_bet_n(server, buf, remaining, n) ==
    IF n.st # "ok"
    THEN [st |-> n.st, pos |-> n.pos, bet |-> NoBet, remaining |-> remaining]
    ELSE IF n.val # 6
    THEN [st |-> "perr", pos |-> n.pos, bet |-> NoBet, remaining |-> remaining]
    ELSE read_bet_pairs(server, remaining,
                        read_pairs(buf, n.pos, n.remaining, n.val, << >>))

\* NewBets.__read_bet
read_bet(server, buf, pos, remaining) ==
    read_bet_n(server, buf, remaining, read_i32(buf, pos, remaining))

\* the loop `for _ in range(n_bets)` of NewBets.read_from with i rounds to go.
\* remaining is read_from's local: it is assigned only when __read_bet returns,
\* so a bet that raises leaves it at its value before that bet.
RECURSIVE read_bets(_, _, _, _, _, _)
RECURSIVE read_bets_next(_, _, _, _, _, _)
\* read_bets_next with `self.bets.insert(0, ...)` for `self.bets.append(...)`
read_bets_next_prepends(server, buf, remaining, i, bets, b) ==
    IF b.st # "ok"
    THEN [st |-> b.st, pos |-> b.pos, bets |-> bets, remaining |-> remaining]
    ELSE read_bets(server, buf, b.pos, b.remaining, i - 1, << b.bet >> \o bets)

read_bets_next(server, buf, remaining, i, bets, b) ==
    IF b.st # "ok"
    THEN [st |-> b.st, pos |-> b.pos, bets |-> bets, remaining |-> remaining]
    ELSE read_bets(server, buf, b.pos, b.remaining, i - 1, Append(bets, b.bet))

read_bets(server, buf, pos, remaining, i, bets) ==
    IF i <= 0 THEN [st |-> "ok", pos |-> pos, bets |-> bets, remaining |-> remaining]
    ELSE read_bets_next(server, buf, remaining, i, bets,
                        read_bet(server, buf, pos, remaining))

\* a decoded message; the fields its class does not have are 0 or empty
Msg(opcode, amount, bets, agency_id) ==
    [opcode |-> opcode, amount |-> amount, bets |-> bets, agency_id |-> agency_id]

\* NewBets.read_from, `except ProtocolError:` after the drain: `raise`
read_from_drained(n, tried, drain) ==
    [st |-> IF drain.st = "ok" THEN "perr" ELSE drain.st, pos |-> drain.pos,
     msg |-> Msg(NEW_BETS, n.val, tried.bets, 0)]

\* NewBets.read_from, `except ProtocolError: if remaining > 0:
\* recv_exactly(sock, remaining)`
read_from_except(buf, n, tried) ==
    IF tried.st = "perr" /\ tried.remaining > 0
    THEN read_from_drained(n, tried, recv_exactly(buf, tried.pos, tried.remaining))
    ELSE [st |-> tried.st, pos |-> tried.pos, msg |-> Msg(NEW_BETS, n.val, tried.bets, 0)]

\* read_from_parsed without `if remaining != 0: raise ProtocolError`
read_from_unchecked(buf, n, body) == read_from_except(buf, n, body)

\* NewBets.read_from after the loop: `if remaining != 0: raise ProtocolError`
read_from_parsed(buf, n, body) ==
    read_from_except(buf, n,
        IF body.st = "ok" /\ body.remaining # 0 THEN [body EXCEPT !.st = "perr"]
        ELSE body)

\* NewBets.read_from after n_bets: `self.amount = n_bets` and the loop
read_from_n(server, buf, length, n) ==
    read_from_parsed(buf, n,
        IF n.st # "ok"
        THEN [st |-> n.st, pos |-> n.pos, bets |-> << >>, remaining |-> length]
        ELSE read_bets(server, buf, n.pos, n.remaining, n.val, << >>))

\* NewBets.read_from
NewBets_read_from(server, buf, pos, length) ==
    read_from_n(server, buf, length, read_i32(buf, pos, length))

\* Finished.read_from and RequestWinners.read_from after read_i32
Finished_read_i32(opcode, a) ==
    [st |-> a.st, pos |-> a.pos, msg |-> Msg(opcode, 0, << >>, a.val)]

\* Finished.read_from and RequestWinners.read_from
Finished_read_from(buf, pos, length, opcode) ==
    IF length # 4 THEN [st |-> "perr", pos |-> pos, msg |-> Msg(opcode, 0, << >>, 0)]
    ELSE Finished_read_i32(opcode, read_i32(buf, pos, length))

\* the opcodes recv_msg dispatches on
Inbound(server) ==
    IF server = "app" THEN {NEW_BETS, FINISHED}
    ELSE {NEW_BETS, FINISHED, REQUEST_WINNERS}

\* what a recv_msg call did: st, pos the bytes it consumed, msg, the header
\* fields opcode and length it read (-1: not read), and inbody: it ended inside
\* NewBets.read_from
Recv(st, pos, msg, opcode, length, inbody) ==
    [st |-> st, pos |-> pos, msg |-> msg, opcode |-> opcode, length |-> length,
     inbody |-> inbody]

NoMsg == Msg(-1, 0, << >>, 0)

\* recv_msg after msg.read_from
recv_msg_read(op, len, r) == Recv(r.st, r.pos, r.msg, op.val, len.val, op.val = NEW_BETS)

\* recv_msg after the header: `if length < 0: raise`, the dispatch,
\* `raise ProtocolError("invalid opcode")`
recv_msg_header(server, buf, op, len) ==
    IF len.st # "ok" THEN Recv(len.st, len.pos, NoMsg, op.val, -1, FALSE)
    ELSE IF len.val < 0 \/ op.val \notin Inbound(server)
    THEN Recv("perr", len.pos, NoMsg, op.val, len.val, FALSE)
    ELSE recv_msg_read(op, len,
           IF op.val = NEW_BETS THEN NewBets_read_from(server, buf, len.pos, len.val)
           ELSE Finished_read_from(buf, len.pos, len.val, op.val))

\* recv_msg after the opcode
recv_msg_opcode(server, buf, op) ==
    IF op.st # "ok" THEN Recv(op.st, op.pos, NoMsg, -1, -1, FALSE)
    ELSE recv_msg_header(server, buf, op, read_i32(buf, op.pos, 4))

\* recv_msg, called with buf holding the unread bytes of the socket
recv_msg(server, buf) == recv_msg_opcode(server, buf, read_u8(buf, 0))

(***************************************************************************)
(* Frame codec: writers.  Each yields the bytes handed to sendall().       *)
(***************************************************************************)
write_u8(value) == << value >>

write_i32(value) == ToLE32(value)

write_string(s) ==
    LET b == Utf8Encode(s)
    IN  write_i32(Len(b)) \o b

BetsRecvSuccess_write_to == write_u8(BETS_RECV_SUCCESS) \o write_i32(0)

BetsRecvFail_write_to == write_u8(BETS_RECV_FAIL) \o write_i32(0)

RECURSIVE Winners_body_length(_)
\* `body_length = 4; for document in self.list: body_length += 4 + len(document)`
Winners_body_length(list) ==
    IF list = << >> THEN 4
    ELSE 4 + Len(list[1]) + Winners_body_length(Tail(list))

RECURSIVE write_strings(_)
write_strings(list) ==
    IF list = << >> THEN << >>
    ELSE write_string(list[1]) \o write_strings(Tail(list))

\* Winners.write_to of common/communication.py with the Opcodes of
\* app/protocol.py
Winners_write_to_app_table(server, list) ==
    write_u8(protocol_WINNERS)
      \o write_i32(Winners_body_length(list))
      \o write_i32(Len(list))
      \o write_strings(list)

\* Winners.write_to; WINNERS is 4 in app/protocol.py and 5 in common/communication.py
Winners_write_to(server, list) ==
    write_u8(IF server = "app" THEN protocol_WINNERS ELSE communication_WINNERS)
      \o write_i32(Winners_body_length(list))
      \o write_i32(Len(list))
      \o write_strings(list)

(***************************************************************************)
(* The agencies: the frames a client may write.  A frame is built the way  *)
(* the protocol lays it out, or with one of its fields off.                *)
(***************************************************************************)
\* "1", "2", ... as str
Digit(d) == << 48 + d >>

EncStr(s) == write_string(s)

\* a bet map with the six required pairs, in the client's order
BetPairs(agency, document, number) ==
    << << K_AGENCIA, agency >>, << K_NOMBRE, << 78 >> >>, << K_APELLIDO, << 80 >> >>,
       << K_DOCUMENTO, document >>, << K_NACIMIENTO, << 49 >> >>, << K_NUMERO, number >> >>

RECURSIVE EncPairs(_)
EncPairs(pairs) ==
    IF pairs = << >> THEN << >>
    ELSE EncStr(pairs[1][1]) \o EncStr(pairs[1][2]) \o EncPairs(Tail(pairs))

\* [n_pairs][pairs...] with n_pairs as given
EncBet(n_pairs, pairs) == ToLE32(n_pairs) \o EncPairs(pairs)

\* [opcode][length][body] with length as given
Frame(opcode, length, body) == << opcode >> \o ToLE32(length) \o body

WellFormed(opcode, body) == Frame(opcode, Len(body), body)

\* the winning number and a losing one, as the str of the NUMERO field
WinNumber == << 55 >>
LoseNumber == << 56 >>

\* the bets the agencies place: agency, document, number
Bet1W == BetPairs(Digit(1), << 49, 48 >>, WinNumber)
Bet1L == BetPairs(Digit(1), << 49, 49 >>, LoseNumber)
Bet2W == BetPairs(Digit(2), << 50, 48 >>, WinNumber)

NewBetsFrame(bets) ==
    LET body == ToLE32(Len(bets))
                  \o (IF Len(bets) >= 1 THEN EncBet(6, bets[1]) ELSE << >>)
                  \o (IF Len(bets) >= 2 THEN EncBet(6, bets[2]) ELSE << >>)
    IN  WellFormed(NEW_BETS, body)

\* well-formed NEW_BETS frames that carry bets
BetFrames == { NewBetsFrame(<< Bet1W >>), NewBetsFrame(<< Bet1L, Bet2W >>) }

\* a NEW_BETS frame with n_bets = 0
EmptyBetsFrame == NewBetsFrame(<< >>)

FinishedFrame(a) == WellFormed(FINISHED, ToLE32(a))

RequestWinnersFrame(a) == WellFormed(REQUEST_WINNERS, ToLE32(a))

\* a NEW_BETS frame whose bet announces and carries 5 pairs
FivePairsFrame == WellFormed(NEW_BETS, ToLE32(1) \o EncBet(5, SubSeq(Bet1W, 1, 5)))

\* a frame with a negative body_length
NegativeLengthFrame == Frame(NEW_BETS, -1, << >>)

\* a NEW_BETS frame whose body is n_bets = -1
NegativeBetsFrame == WellFormed(NEW_BETS, ToLE32(-1))

SomeBadFrames == { FivePairsFrame, NegativeLengthFrame }

\* malformed frames, each but the last with its declared body_length equal to
\* the bytes that follow the header
BadFrames ==
    LET twice == [Bet1W EXCEPT ![6] = << K_AGENCIA, Digit(1) >>]
    IN  { FivePairsFrame,
          \* six pairs, NUMERO missing (AGENCIA twice)
          WellFormed(NEW_BETS, ToLE32(1) \o EncBet(6, twice)),
          \* the first string has length 0
          WellFormed(NEW_BETS, ToLE32(1) \o ToLE32(6) \o ToLE32(0) \o << 65, 65, 65, 65 >>),
          \* the first string is longer than the rest of the body
          WellFormed(NEW_BETS, ToLE32(1) \o ToLE32(6) \o ToLE32(9) \o << 65, 65 >>),
          \* n_bets = 0 followed by four bytes
          WellFormed(NEW_BETS, ToLE32(0) \o ToLE32(0)),
          \* a body shorter than n_bets
          WellFormed(NEW_BETS, << 0, 0 >>),
          \* FINISHED with an 8-byte body
          WellFormed(FINISHED, ToLE32(1) \o ToLE32(1)),
          \* an opcode no table holds, with a 4-byte body
          WellFormed(9, ToLE32(1)),
          NegativeBetsFrame,
          NegativeLengthFrame }

(***************************************************************************)
(* Storage collaborator (common/utils.py)                                  *)
(***************************************************************************)
LOTTERY_WINNER_NUMBER == 7

\* utils.has_won(bet)
has_won(b) == b.number = LOTTERY_WINNER_NUMBER

\* [utils.Bet(...) for rb in raw_bets]
to_utils_bets(raw_bets) == [i \in 1..Len(raw_bets) |-> utils_Bet(raw_bets[i])]

\* utils.store_bets(bets): the store after a successful call
utils_store_bets(stored, bets) == stored \o bets

\* the outcomes of service.store_bets / utils.store_bets on a decoded batch:
\* TRUE the batch is stored, FALSE the call raises
StoreOutcomes(raw_bets) ==
    IF \E i \in 1..Len(raw_bets) : utils_Bet_fails(raw_bets[i]) THEN {FALSE}
    ELSE {TRUE, FALSE}

(***************************************************************************)
(* State                                                                   *)
(***************************************************************************)
\* the expected number of finished agencies of common/server.py
srv_EXPECTED == 5
\* the largest clients_amount app/net.py is started with
MaxClients == 2
\* SIGTERM deliveries
MaxSigterm == 1
\* recv_into calls the transport fails (socket.timeout or OSError)
MaxRecvFail == 1

\* the sockets accept() may return during one process lifetime
MaxConns == srv_EXPECTED + MaxClients + MaxExtra
Socks == 1..MaxConns

VARIABLES
    server,          \* "app" or "common": the implementation that runs
    scenario,        \* "agencies": many clients that write little;
                     \* "session": one client that writes more
    clients_amount,  \* app: Server._clients_amount
    running,         \* Server._running
    listening,       \* Server._server_socket is open
    finished,        \* app: Server._finished, the deque of (agency_id, socket)
    finished_ids,    \* common: Server._finished, the set of agency ids
    winners,         \* Server._winners
    raffle_done,     \* common: Server._raffle_done
    store,           \* the bets utils.store_bets has written, in order
    pc,              \* where the main thread is
    client_sock,     \* the socket __handle_client_connection serves (0: none)
    action,          \* app: curr_handle_conn_action
    popped,          \* app: (ag_id, sock) of the distribution loop
    sock,            \* per socket: state ("none", "open", "closed"), closes (calls
                     \* of close()), tx (the frames written to it), peer_closed
                     \* (the peer of the open socket has closed its end), fin (app:
                     \* the agency_id of the FINISHED decoded from it)
    rx,              \* bytes the peer of client_sock wrote, not yet consumed
    raffles,         \* calls of Server.__raffle
    last_recv,       \* what the last recv_msg call on client_sock did: st, the
                     \* bytes it consumed, the header it read, the agency_id it decoded,
                     \* msg.amount and len(msg.bets)
    used             \* what the environment has spent of the bounds

vars == << server, scenario, clients_amount, running, listening, finished, finished_ids,
           winners, raffle_done, store, pc, client_sock, action, popped, sock, rx,
           raffles, last_recv, used >>

\* groups for UNCHANGED
config == << server, scenario, clients_amount >>
coord == << finished, finished_ids, winners, raffle_done, raffles >>
accepting == << running, listening >>
session == << client_sock, action, popped >>

NoRecv == [st |-> "none", consumed |-> 0, opcode |-> -1, length |-> -1, inbody |-> FALSE,
           agency_id |-> 0, amount |-> 0, bets |-> 0]

NoSock == [state |-> "none", closes |-> 0, tx |-> << >>, peer_closed |-> FALSE,
           fin |-> << >>]

\* Server.__init__ of either implementation
Init ==
    /\ server \in {"app", "common"}
    /\ scenario \in {"agencies", "session"}
    /\ clients_amount \in (IF server = "app" THEN 1..MaxClients ELSE {srv_EXPECTED})
    /\ running = FALSE
    /\ listening = TRUE
    /\ finished = << >>
    /\ finished_ids = {}
    /\ winners = [a \in {} |-> << >>]
    /\ raffle_done = FALSE
    /\ store = << >>
    /\ pc = "start"
    /\ client_sock = 0
    /\ action = "CLOSE"
    /\ popped = << 0, 0 >>
    /\ sock = [c \in Socks |-> NoSock]
    /\ rx = << >>
    /\ raffles = 0
    /\ last_recv = NoRecv
    /\ used = [conns |-> 0, frames |-> 0, bad |-> 0, bets |-> 0, sigterms |-> 0, rfails |-> 0]

(***************************************************************************)
(* Sockets                                                                 *)
(***************************************************************************)
\* sendall() on a socket whose peer is gone may raise OSError
SendOutcomes(c) == IF sock[c].peer_closed THEN {TRUE, FALSE} ELSE {TRUE}

\* sock.close() on socket c
Closed(ss, c) ==
    [ss EXCEPT ![c].state = "closed", ![c].closes = @ + 1, ![c].peer_closed = FALSE]

\* a frame written to socket c
Written(ss, c, frame) == [ss EXCEPT ![c].tx = Append(@, frame)]

(***************************************************************************)
(* The agencies                                                            *)
(***************************************************************************)
\* connections the clients open: the expected agencies and MaxExtra more, or
\* the one of the session
ConnLimit ==
    IF scenario = "session" THEN 1
    ELSE (IF server = "app" THEN clients_amount ELSE srv_EXPECTED) + MaxExtra

\* frames one client writes, and NEW_BETS frames all clients write
FrameLimit == IF scenario = "session" THEN MaxFrames + 1 ELSE MaxFrames
BetsLimit == IF scenario = "session" THEN MaxBets + 1 ELSE MaxBets

\* the malformed frames the clients write
BadSent == IF scenario = "session" THEN BadFrames ELSE SomeBadFrames

\* agency ids the FINISHED frames carry.  The agencies of the two-phase server
\* finish in the order 1, 2, ...: a frame names the next agency, or agency 1 again.
FinishedIds ==
    IF server = "app" THEN 1..MaxClients
    ELSE {1} \cup ({Cardinality(finished_ids) + 1} \cap (1..srv_EXPECTED))

\* agency ids the REQUEST_WINNERS frames carry: the first and the last agency
RequestIds == {1, srv_EXPECTED}

\* a client writes its next frame when the server waits for bytes
Sending ==
    /\ pc = "recv"
    /\ ~sock[client_sock].peer_closed
    /\ used.frames < FrameLimit
    /\ recv_msg(server, rx).st = "eof"

\* the client of the served connection writes a well-formed NEW_BETS frame
ClientSendBets ==
    /\ Sending
    /\ used.bets < BetsLimit
    /\ \E f \in BetFrames \cup {EmptyBetsFrame} : rx' = rx \o f
    /\ used' = [used EXCEPT !.frames = @ + 1, !.bets = @ + 1]
    /\ UNCHANGED << config, accepting, coord, store, pc, session, sock, last_recv >>

\* ... a malformed frame
ClientSendBad ==
    /\ Sending
    /\ used.bad < MaxBad
    /\ \E f \in BadSent : rx' = rx \o f
    /\ used' = [used EXCEPT !.frames = @ + 1, !.bad = @ + 1]
    /\ UNCHANGED << config, accepting, coord, store, pc, session, sock, last_recv >>

\* ... FINISHED
ClientSendFinished ==
    /\ Sending
    /\ \E a \in FinishedIds : rx' = rx \o FinishedFrame(a)
    /\ used' = [used EXCEPT !.frames = @ + 1]
    /\ UNCHANGED << config, accepting, coord, store, pc, session, sock, last_recv >>

\* ... REQUEST_WINNERS (two-phase clients only)
ClientSendRequest ==
    /\ Sending
    /\ server = "common"
    /\ \E a \in RequestIds : rx' = rx \o RequestWinnersFrame(a)
    /\ used' = [used EXCEPT !.frames = @ + 1]
    /\ UNCHANGED << config, accepting, coord, store, pc, session, sock, last_recv >>

\* the client of the served connection closes its end
ClientClose ==
    /\ pc = "recv"
    /\ ~sock[client_sock].peer_closed
    /\ sock' = [sock EXCEPT ![client_sock].peer_closed = TRUE]
    /\ UNCHANGED << config, accepting, coord, store, pc, session, rx, last_recv, used >>

(***************************************************************************)
(* Server.run and the accept loop (the same code in both implementations)  *)
(***************************************************************************)
\* run(): `self._running = True; signal.signal(SIGTERM, self.__stop_running)`
run ==
    /\ pc = "start"
    /\ running' = TRUE
    /\ pc' = "loop"
    /\ UNCHANGED << config, listening, coord, store, session, sock, rx, last_recv, used >>

\* `while self._running:` ... `logging.shutdown()`
loop_test ==
    /\ pc = "loop"
    /\ pc' = IF running THEN "accept" ELSE "done"
    /\ UNCHANGED << config, accepting, coord, store, session, sock, rx, last_recv, used >>

\* accept_new_connection run by a thread of its own, beside the handlers
accept_while_serving ==
    /\ pc \in {"accept", "recv"}
    /\ listening
    /\ used.conns < ConnLimit
    /\ used' = [used EXCEPT !.conns = @ + 1, !.frames = 0]
    /\ client_sock' = used.conns + 1
    /\ sock' = [sock EXCEPT ![used.conns + 1].state = "open"]
    /\ action' = "CLOSE"
    /\ pc' = "recv"
    /\ rx' = << >>
    /\ last_recv' = NoRecv
    /\ UNCHANGED << config, accepting, coord, store, popped >>

\* __accept_new_connection: accept() returns a client, or raises OSError on the
\* closed listening socket (`if not self._running: break` / `raise`).
\* __handle_client_connection starts with the action CLOSE.
accept_new_connection ==
    /\ pc = "accept"
    /\ IF listening
       THEN /\ used.conns < ConnLimit
            /\ used' = [used EXCEPT !.conns = @ + 1, !.frames = 0]
            /\ client_sock' = used.conns + 1
            /\ sock' = [sock EXCEPT ![used.conns + 1].state = "open"]
            /\ action' = "CLOSE"
            /\ pc' = "recv"
       ELSE /\ pc' = IF running THEN "crashed" ELSE "done"
            /\ UNCHANGED << used, client_sock, sock, action >>
    /\ UNCHANGED << config, accepting, coord, store, popped, rx, last_recv >>

(***************************************************************************)
(* recv_msg as __handle_client_connection calls it                         *)
(***************************************************************************)
\* the thread of implementation srv is at `msg = recv_msg(client_sock)`
Receiving(srv) ==
    /\ server = srv
    /\ pc = "recv"

\* the call whose outcome is r returns or raises: its bytes are there, or the
\* peer has closed
Returns(r) == r.st = "eof" => sock[client_sock].peer_closed

\* the bytes the call has read are gone from the socket
Consumed(r) ==
    /\ rx' = SubSeq(rx, r.pos + 1, Len(rx))
    /\ last_recv' = [st |-> r.st, consumed |-> r.pos, opcode |-> r.opcode,
                     length |-> r.length, inbody |-> r.inbody,
                     agency_id |-> r.msg.agency_id, amount |-> r.msg.amount,
                     bets |-> Len(r.msg.bets)]

(***************************************************************************)
(* app/net.py                                                              *)
(***************************************************************************)
\* self._winners.get(agency_id, [])
winners_get(w, agency_id) == IF agency_id \in DOMAIN w THEN w[agency_id] ELSE << >>

\* net_process_new_bets with BetsRecvSuccess().write_to moved before
\* service.store_bets
net_process_new_bets_acks_first ==
    /\ Receiving("app")
    /\ \E r \in {recv_msg(server, rx)} :
         /\ Returns(r)
         /\ r.st = "ok"
         /\ r.msg.opcode = NEW_BETS
         /\ Consumed(r)
         /\ \E stored \in StoreOutcomes(r.msg.bets), sent \in SendOutcomes(client_sock) :
              /\ store' = IF sent /\ stored
                          THEN utils_store_bets(store, to_utils_bets(r.msg.bets))
                          ELSE store
              /\ sock' = IF ~sent THEN sock
                         ELSE Written(sock, client_sock, BetsRecvSuccess_write_to)
              /\ action' = IF ~sent THEN action ELSE IF stored THEN "KEEP" ELSE "CLOSE"
              /\ pc' = IF sent /\ stored THEN "recv" ELSE "exit"
         /\ UNCHANGED << config, accepting, coord, client_sock, popped, used >>

\* __process_msg, NEW_BETS: store, acknowledge, KEEP; on an exception
\* BETS_RECV_FAIL and CLOSE.  An OSError of write_to leaves __process_msg and is
\* caught by __handle_client_connection, which breaks with the action it had.
net_process_new_bets ==
    /\ Receiving("app")
    /\ \E r \in {recv_msg(server, rx)} :
         /\ Returns(r)
         /\ r.st = "ok"
         /\ r.msg.opcode = NEW_BETS
         /\ Consumed(r)
         /\ \E stored \in StoreOutcomes(r.msg.bets), sent \in SendOutcomes(client_sock) :
              /\ store' = IF stored
                          THEN utils_store_bets(store, to_utils_bets(r.msg.bets))
                          ELSE store
              /\ sock' = IF ~sent THEN sock
                         ELSE IF stored THEN Written(sock, client_sock, BetsRecvSuccess_write_to)
                         ELSE Written(sock, client_sock, BetsRecvFail_write_to)
              /\ action' = IF ~sent THEN action ELSE IF stored THEN "KEEP" ELSE "CLOSE"
              /\ pc' = IF sent /\ stored THEN "recv" ELSE "exit"
         /\ UNCHANGED << config, accepting, coord, client_sock, popped, used >>

\* net_process_finished with `self._finished.appendleft(...)`
net_process_finished_appendleft ==
    /\ Receiving("app")
    /\ \E r \in {recv_msg(server, rx)} :
         /\ Returns(r)
         /\ r.st = "ok"
         /\ r.msg.opcode = FINISHED
         /\ Consumed(r)
         /\ finished' = << << r.msg.agency_id, client_sock >> >> \o finished
         /\ sock' = [sock EXCEPT ![client_sock].fin = << r.msg.agency_id >>]
         /\ pc' = "fin_len"
         /\ UNCHANGED << config, accepting, finished_ids, winners, raffle_done, raffles, store,
                         session, used >>

\* __process_msg, FINISHED: `self._finished.append((msg.agency_id, client_sock))`
net_process_finished ==
    /\ Receiving("app")
    /\ \E r \in {recv_msg(server, rx)} :
         /\ Returns(r)
         /\ r.st = "ok"
         /\ r.msg.opcode = FINISHED
         /\ Consumed(r)
         /\ finished' = Append(finished, << r.msg.agency_id, client_sock >>)
         /\ sock' = [sock EXCEPT ![client_sock].fin = << r.msg.agency_id >>]
         /\ pc' = "fin_len"
         /\ UNCHANGED << config, accepting, finished_ids, winners, raffle_done, raffles, store,
                         session, used >>

\* net_finished_len with `return HandleConnAction.KEEP` for an agency that waits
net_finished_len_keeps_reading ==
    /\ server = "app"
    /\ pc = "fin_len"
    /\ IF Len(finished) = clients_amount
       THEN pc' = "raffle" /\ action' = action
       ELSE pc' = "recv" /\ action' = "KEEP"
    /\ UNCHANGED << config, accepting, coord, store, client_sock, popped, sock, rx,
                    last_recv, used >>

\* `if len(self._finished) == self._clients_amount:` ... `return EXIT`
net_finished_len ==
    /\ server = "app"
    /\ pc = "fin_len"
    /\ IF Len(finished) = clients_amount
       THEN pc' = "raffle" /\ action' = action
       ELSE pc' = "exit" /\ action' = "EXIT"
    /\ UNCHANGED << config, accepting, coord, store, client_sock, popped, sock, rx,
                    last_recv, used >>

\* service.compute_winners(): app/service.py defines store_bets only, so the
\* attribute lookup raises AttributeError
service_compute_winners == [raised |-> TRUE, value |-> [a \in {} |-> << >>]]

\* __raffle: `try: self._winners = service.compute_winners()` /
\* `except Exception: log; return`
net_raffle ==
    /\ server = "app"
    /\ pc = "raffle"
    /\ raffles' = raffles + 1
    /\ winners' = IF service_compute_winners.raised THEN winners
                  ELSE service_compute_winners.value
    /\ pc' = "dist_test"
    /\ UNCHANGED << config, accepting, finished, finished_ids, raffle_done, store,
                    session, sock, rx, last_recv, used >>

\* `while self._finished:` ... `return EXIT`
net_distribute_test ==
    /\ server = "app"
    /\ pc = "dist_test"
    /\ IF finished # << >>
       THEN pc' = "dist_pop" /\ action' = action
       ELSE pc' = "exit" /\ action' = "EXIT"
    /\ UNCHANGED << config, accepting, coord, store, client_sock, popped, sock, rx,
                    last_recv, used >>

\* `(ag_id, sock) = self._finished.popleft()`: IndexError on an empty deque,
\* which nothing catches up to run()
net_distribute_pop ==
    /\ server = "app"
    /\ pc = "dist_pop"
    /\ IF finished = << >>
       THEN pc' = "crashed" /\ UNCHANGED << finished, popped >>
       ELSE /\ popped' = Head(finished)
            /\ finished' = Tail(finished)
            /\ pc' = "dist_send"
    /\ UNCHANGED << config, accepting, finished_ids, winners, raffle_done, raffles, store,
                    client_sock, action, sock, rx, last_recv, used >>

\* __send_winners(ag_id, sock): the frame is written, or the OSError is logged
net_send_winners ==
    /\ server = "app"
    /\ pc = "dist_send"
    /\ \E sent \in SendOutcomes(popped[2]) :
         sock' = IF sent
                 THEN Written(sock, popped[2],
                              Winners_write_to(server, winners_get(winners, popped[1])))
                 ELSE sock
    /\ pc' = "dist_close"
    /\ UNCHANGED << config, accepting, coord, store, session, rx, last_recv, used >>

\* `sock.close()` of the distribution loop
net_distribute_close ==
    /\ server = "app"
    /\ pc = "dist_close"
    /\ sock' = Closed(sock, popped[2])
    /\ pc' = "dist_test"
    /\ UNCHANGED << config, accepting, coord, store, session, rx, last_recv, used >>

\* `except protocol.ProtocolError: logging.error(...)`: the loop goes on
net_protocol_error ==
    /\ Receiving("app")
    /\ \E r \in {recv_msg(server, rx)} :
         /\ Returns(r)
         /\ r.st = "perr"
         /\ Consumed(r)
         /\ UNCHANGED << config, accepting, coord, store, pc, session, sock, used >>

\* sock.recv_into raises socket.timeout or OSError in the first recv_exactly of
\* recv_msg: recv_exactly raises ProtocolError from it, and
\* `except protocol.ProtocolError: logging.error(...)`: the loop goes on
net_recv_fails ==
    /\ Receiving("app")
    /\ used.rfails < MaxRecvFail
    /\ used' = [used EXCEPT !.rfails = @ + 1]
    /\ last_recv' = [NoRecv EXCEPT !.st = "terr"]
    /\ UNCHANGED << config, accepting, coord, store, pc, session, sock, rx >>

\* `except EOFError: break`
net_eof ==
    /\ Receiving("app")
    /\ \E r \in {recv_msg(server, rx)} :
         /\ Returns(r)
         /\ r.st = "eof"
         /\ Consumed(r)
         /\ pc' = "exit"
         /\ UNCHANGED << config, accepting, coord, store, session, sock, used >>

\* net_handle_exit with `client_sock.close()` whatever the action is
net_handle_exit_closes_always ==
    /\ server = "app"
    /\ pc = "exit"
    /\ sock' = Closed(sock, client_sock)
    /\ client_sock' = 0
    /\ rx' = << >>
    /\ last_recv' = NoRecv
    /\ pc' = "loop"
    /\ UNCHANGED << config, accepting, coord, store, action, popped, used >>

\* `if curr_handle_conn_action == HandleConnAction.CLOSE: client_sock.close()`
net_handle_exit ==
    /\ server = "app"
    /\ pc = "exit"
    /\ sock' = IF action = "CLOSE" THEN Closed(sock, client_sock) ELSE sock
    /\ client_sock' = 0
    /\ rx' = << >>
    /\ last_recv' = NoRecv
    /\ pc' = "loop"
    /\ UNCHANGED << config, accepting, coord, store, action, popped, used >>

\* signal.signal(SIGTERM, ...) has run and the process lives
HandlerInstalled == pc \notin {"start", "done", "crashed"}

RECURSIVE CloseAll(_, _)
\* `while self._finished: _ag, sock = self._finished.popleft(); sock.close()`
CloseAll(ss, q) == IF q = << >> THEN ss ELSE CloseAll(Closed(ss, q[1][2]), Tail(q))

\* net_stop_running without `self._server_socket.close()`
net_stop_running_keeps_listening ==
    /\ server = "app"
    /\ HandlerInstalled
    /\ used.sigterms < MaxSigterm
    /\ used' = [used EXCEPT !.sigterms = @ + 1]
    /\ running' = FALSE
    /\ listening' = listening
    /\ sock' = CloseAll(sock, finished)
    /\ finished' = << >>
    /\ UNCHANGED << config, finished_ids, winners, raffle_done, raffles, store, pc,
                    session, rx, last_recv >>

\* __stop_running, the SIGTERM handler: it runs on the main thread between two
\* of its steps
net_stop_running ==
    /\ server = "app"
    /\ HandlerInstalled
    /\ used.sigterms < MaxSigterm
    /\ used' = [used EXCEPT !.sigterms = @ + 1]
    /\ running' = FALSE
    /\ listening' = FALSE
    /\ sock' = CloseAll(sock, finished)
    /\ finished' = << >>
    /\ UNCHANGED << config, finished_ids, winners, raffle_done, raffles, store, pc,
                    session, rx, last_recv >>

(***************************************************************************)
(* common/server.py                                                        *)
(***************************************************************************)
\* `[(b.agency, b.document) for b in bets if utils.has_won(b)]`
winning(bets) ==
    LET ws == SelectSeq(bets, has_won)
    IN  [i \in 1..Len(ws) |-> << ws[i].agency, ws[i].document >>]

RECURSIVE append_winners(_, _)
\* `for w in winners: self._winners.setdefault(w[0], []).append(w[1])`
append_winners(w, ws) ==
    IF ws = << >> THEN w
    ELSE LET a == ws[1][1]
             w1 == [x \in DOMAIN w \cup {a} |->
                      IF x = a THEN Append(winners_get(w, a), ws[1][2]) ELSE w[x]]
         IN  append_winners(w1, Tail(ws))

\* srv_process_new_bets with `return False` after BETS_RECV_FAIL
srv_process_new_bets_fail_ends ==
    /\ Receiving("common")
    /\ \E r \in {recv_msg(server, rx)} :
         /\ Returns(r)
         /\ r.st = "ok"
         /\ r.msg.opcode = NEW_BETS
         /\ Consumed(r)
         /\ \E stored \in StoreOutcomes(r.msg.bets), sent \in SendOutcomes(client_sock) :
              /\ store' = IF stored
                          THEN utils_store_bets(store, to_utils_bets(r.msg.bets))
                          ELSE store
              /\ sock' = IF ~sent THEN sock
                         ELSE IF stored THEN Written(sock, client_sock, BetsRecvSuccess_write_to)
                         ELSE Written(sock, client_sock, BetsRecvFail_write_to)
              /\ pc' = IF sent /\ stored THEN "recv" ELSE "exit"
         /\ UNCHANGED << config, accepting, coord, session, used >>

\* __process_msg, NEW_BETS: store and BETS_RECV_SUCCESS, or BETS_RECV_FAIL on
\* an exception; `return True` either way.  An OSError of write_to is caught by
\* __handle_client_connection, which breaks.
srv_process_new_bets ==
    /\ Receiving("common")
    /\ \E r \in {recv_msg(server, rx)} :
         /\ Returns(r)
         /\ r.st = "ok"
         /\ r.msg.opcode = NEW_BETS
         /\ Consumed(r)
         /\ \E stored \in StoreOutcomes(r.msg.bets), sent \in SendOutcomes(client_sock) :
              /\ store' = IF stored
                          THEN utils_store_bets(store, to_utils_bets(r.msg.bets))
                          ELSE store
              /\ sock' = IF ~sent THEN sock
                         ELSE IF stored THEN Written(sock, client_sock, BetsRecvSuccess_write_to)
                         ELSE Written(sock, client_sock, BetsRecvFail_write_to)
              /\ pc' = IF sent THEN "recv" ELSE "exit"
         /\ UNCHANGED << config, accepting, coord, session, used >>

\* __process_msg, FINISHED: `self._finished.add(msg.agency_id)`, then
\* `if len(self._finished) == 5 and not self._raffle_done: self.__raffle()`
\* and `return False`.  __raffle: load_bets() may raise, which is logged and
\* leaves _raffle_done unset.
srv_process_finished ==
    /\ Receiving("common")
    /\ \E r \in {recv_msg(server, rx)} :
         /\ Returns(r)
         /\ r.st = "ok"
         /\ r.msg.opcode = FINISHED
         /\ Consumed(r)
         /\ finished_ids' = finished_ids \cup {r.msg.agency_id}
         /\ IF Cardinality(finished_ids') = srv_EXPECTED /\ ~raffle_done
            THEN /\ raffles' = raffles + 1
                 /\ \E loaded \in BOOLEAN :
                      /\ winners' = IF loaded THEN append_winners(winners, winning(store))
                                    ELSE winners
                      /\ raffle_done' = loaded
            ELSE UNCHANGED << raffles, winners, raffle_done >>
         /\ pc' = "exit"
         /\ UNCHANGED << config, accepting, finished, store, session, sock, used >>

\* srv_process_request_winners with `if msg.agency_id in self._finished:`
srv_process_request_winners_no_latch ==
    /\ Receiving("common")
    /\ \E r \in {recv_msg(server, rx)} :
         /\ Returns(r)
         /\ r.st = "ok"
         /\ r.msg.opcode = REQUEST_WINNERS
         /\ Consumed(r)
         /\ IF r.msg.agency_id \in finished_ids
            THEN \E sent \in SendOutcomes(client_sock) :
                   sock' = IF sent
                           THEN Written(sock, client_sock,
                                  Winners_write_to(server,
                                                   winners_get(winners, r.msg.agency_id)))
                           ELSE sock
            ELSE sock' = sock
         /\ pc' = "exit"
         /\ UNCHANGED << config, accepting, coord, store, session, used >>

\* __process_msg, REQUEST_WINNERS: `if self._raffle_done and msg.agency_id in
\* self._finished: self.__send_winners(...)`, `return False`
srv_process_request_winners ==
    /\ Receiving("common")
    /\ \E r \in {recv_msg(server, rx)} :
         /\ Returns(r)
         /\ r.st = "ok"
         /\ r.msg.opcode = REQUEST_WINNERS
         /\ Consumed(r)
         /\ IF raffle_done /\ r.msg.agency_id \in finished_ids
            THEN \E sent \in SendOutcomes(client_sock) :
                   sock' = IF sent
                           THEN Written(sock, client_sock,
                                  Winners_write_to(server,
                                                   winners_get(winners, r.msg.agency_id)))
                           ELSE sock
            ELSE sock' = sock
         /\ pc' = "exit"
         /\ UNCHANGED << config, accepting, coord, store, session, used >>

\* `except communication.ProtocolError: logging.error(...)`: the loop goes on
srv_protocol_error ==
    /\ Receiving("common")
    /\ \E r \in {recv_msg(server, rx)} :
         /\ Returns(r)
         /\ r.st = "perr"
         /\ Consumed(r)
         /\ UNCHANGED << config, accepting, coord, store, pc, session, sock, used >>

\* sock.recv_into raises socket.timeout or OSError in the first recv_exactly of
\* recv_msg: recv_exactly raises ProtocolError from it, and
\* `except communication.ProtocolError: logging.error(...)`: the loop goes on
srv_recv_fails ==
    /\ Receiving("common")
    /\ used.rfails < MaxRecvFail
    /\ used' = [used EXCEPT !.rfails = @ + 1]
    /\ last_recv' = [NoRecv EXCEPT !.st = "terr"]
    /\ UNCHANGED << config, accepting, coord, store, pc, session, sock, rx >>

\* `except EOFError: break`
srv_eof ==
    /\ Receiving("common")
    /\ \E r \in {recv_msg(server, rx)} :
         /\ Returns(r)
         /\ r.st = "eof"
         /\ Consumed(r)
         /\ pc' = "exit"
         /\ UNCHANGED << config, accepting, coord, store, session, sock, used >>

\* `client_sock.close()` after the loop
srv_handle_exit ==
    /\ server = "common"
    /\ pc = "exit"
    /\ sock' = Closed(sock, client_sock)
    /\ client_sock' = 0
    /\ rx' = << >>
    /\ last_recv' = NoRecv
    /\ pc' = "loop"
    /\ UNCHANGED << config, accepting, coord, store, action, popped, used >>

\* __stop_running, the SIGTERM handler
srv_stop_running ==
    /\ server = "common"
    /\ HandlerInstalled
    /\ used.sigterms < MaxSigterm
    /\ used' = [used EXCEPT !.sigterms = @ + 1]
    /\ running' = FALSE
    /\ listening' = FALSE
    /\ UNCHANGED << config, coord, store, pc, session, sock, rx, last_recv >>

(***************************************************************************)
(* Specification                                                           *)
(***************************************************************************)
Next ==
    \/ ClientSendBets
    \/ ClientSendBad
    \/ ClientSendFinished
    \/ ClientSendRequest
    \/ ClientClose
    \/ run
    \/ loop_test
    \/ accept_new_connection
    \/ net_process_new_bets
    \/ net_process_finished
    \/ net_finished_len
    \/ net_raffle
    \/ net_distribute_test
    \/ net_distribute_pop
    \/ net_send_winners
    \/ net_distribute_close
    \/ net_protocol_error
    \/ net_recv_fails
    \/ net_eof
    \/ net_handle_exit
    \/ net_stop_running
    \/ srv_process_new_bets
    \/ srv_process_finished
    \/ srv_process_request_winners
    \/ srv_protocol_error
    \/ srv_recv_fails
    \/ srv_eof
    \/ srv_handle_exit
    \/ srv_stop_running

Spec == Init /\ [][Next]_vars

(***************************************************************************)
(* The two-phase server after a raffle, serving a REQUEST_WINNERS          *)
(* connection: the stored winning bets of agency 1 carry documents of one, *)
(* two and three UTF-8 bytes.                                              *)
(***************************************************************************)
\* documents in the store
MaxDocs == 2

\* "1", "é", "€"
Documents == { << 49 >>, << 233 >>, << 8364 >> }

DocLists == UNION { [1..n -> Documents] : n \in 0..MaxDocs }

\* the state after agencies 1..5 finished and __raffle loaded the store
WinnersInit ==
    /\ server = "common"
    /\ scenario = "session"
    /\ clients_amount = srv_EXPECTED
    /\ running = TRUE
    /\ listening = TRUE
    /\ finished = << >>
    /\ finished_ids = 1..srv_EXPECTED
    /\ \E docs \in DocLists :
         /\ store = [i \in 1..Len(docs) |->
                       [agency |-> 1, document |-> docs[i],
                        number |-> LOTTERY_WINNER_NUMBER]]
         /\ winners = append_winners([a \in {} |-> << >>], winning(store))
    /\ raffle_done = TRUE
    /\ pc = "recv"
    /\ client_sock = 1
    /\ action = "CLOSE"
    /\ popped = << 0, 0 >>
    /\ sock = [c \in Socks |-> IF c = 1 THEN [NoSock EXCEPT !.state = "open"] ELSE NoSock]
    /\ rx = << >>
    /\ raffles = 1
    /\ last_recv = NoRecv
    /\ used = [conns |-> 1, frames |-> 0, bad |-> 0, bets |-> 0, sigterms |-> 0, rfails |-> 0]

WinnersNext ==
    \/ ClientSendRequest
    \/ ClientClose
    \/ srv_process_request_winners
    \/ srv_eof
    \/ srv_handle_exit

WinnersSpec == WinnersInit /\ [][WinnersNext]_vars

(***************************************************************************)
(* What the sockets show                                                   *)
(***************************************************************************)
\* the opcode of WINNERS in the implementation that runs
WINNERS == IF server = "app" THEN protocol_WINNERS ELSE communication_WINNERS

\* the WINNERS frames written to socket c
WinnersWritten(c) == { i \in 1..Len(sock[c].tx) : sock[c].tx[i][1] = WINNERS }

\* the last frame written to socket c is a WINNERS frame
WinnersLast(c) == sock[c].tx # << >> /\ sock[c].tx[Len(sock[c].tx)][1] = WINNERS

\* app: the agency ids of the FINISHED frames decoded so far
FinishedAgencies == { sock[c].fin[1] : c \in { d \in Socks : sock[d].fin # << >> } }

\* the agencies that have finished, and how many the raffle waits for
Finishers == IF server = "app" THEN FinishedAgencies ELSE finished_ids
Expected == IF server = "app" THEN clients_amount ELSE srv_EXPECTED

\* the documents of the stored winning bets of agency a, in the order stored
WinningDocuments(a) ==
    LET ws == SelectSeq(store, LAMBDA b : b.agency = a /\ has_won(b))
    IN  [i \in 1..Len(ws) |-> ws[i].document]

\* socket c belongs to the handler that serves it, to the queue of finished
\* agencies, or to the distribution loop that has popped it
Owned(c) ==
    \/ c = client_sock
    \/ \E i \in 1..Len(finished) : finished[i][2] = c
    \/ (pc \in {"dist_send", "dist_close"} /\ popped[2] = c)

\* the step writes BETS_RECV_FAIL to socket c
FailWritten(c) == sock'[c].tx = Append(sock[c].tx, BetsRecvFail_write_to)

(***************************************************************************)
(* Claims                                                                  *)
(***************************************************************************)
\* C1: during one process lifetime Server.__raffle is invoked at most once,
\* whatever connections and FINISHED frames arrive.
C1_raffle_at_most_once == raffles <= 1

\* C2: once the expected number of agencies have finished, every connection on
\* which a FINISHED was accepted has been answered and closed: when the handler
\* has returned and the server has not been told to stop, none of them is still
\* open, and none was written more than one WINNERS frame.
C2_finished_are_answered ==
    server = "app" =>
      \A c \in Socks :
        sock[c].fin # << >> =>
          /\ Cardinality(WinnersWritten(c)) <= 1
          /\ (pc = "accept" /\ running /\ Cardinality(FinishedAgencies) >= clients_amount)
               => sock[c].state = "closed"

\* C3: the raffle has started only if the number of distinct agency ids that
\* sent FINISHED has reached the expected count.
C3_raffle_needs_distinct_agencies ==
    raffles > 0 => Cardinality(Finishers) >= Expected

\* C4: a WINNERS frame just written for agency A lists exactly the documents of
\* the stored bets of A that won, in the order of the store.
C4_winners_are_the_stored_winning_bets ==
    /\ (server = "app" /\ pc = "dist_close" /\ WinnersLast(popped[2]))
         => sock[popped[2]].tx[Len(sock[popped[2]].tx)]
              = Winners_write_to(server, WinningDocuments(popped[1]))
    /\ (server = "common" /\ pc = "exit" /\ last_recv.st = "ok"
          /\ last_recv.opcode = REQUEST_WINNERS /\ WinnersLast(client_sock))
         => sock[client_sock].tx[Len(sock[client_sock].tx)]
              = Winners_write_to(server, WinningDocuments(last_recv.agency_id))

\* C5: a recv_msg call that raised ProtocolError inside NewBets.read_from has
\* consumed exactly 1 + 4 + body_length bytes.
C5_failed_body_is_drained_exactly ==
    (last_recv.st = "perr" /\ last_recv.inbody)
      => last_recv.consumed = 1 + 4 + last_recv.length

\* C6: once recv_msg has raised ProtocolError on a connection the session is
\* over: the handler is not back at recv_msg to read another frame from it.
C6_protocol_error_ends_session == last_recv.st = "perr" => pc # "recv"

\* C7 (as claimed): a step that writes BETS_RECV_FAIL leaves the session in
\* READING with its connection open.
C7_storage_failure_keeps_reading ==
    [][\A c \in Socks :
         FailWritten(c) => (pc' = "recv" /\ client_sock' = c /\ sock'[c].state = "open")]_vars

\* C7 (amended): a step that writes BETS_RECV_FAIL leaves the session of the
\* two-phase server in READING with its connection open, and makes the handler
\* of the one-shot server leave its loop with the action CLOSE, on which it
\* closes the connection.
C7_storage_failure_by_server ==
    [][/\ \A c \in Socks :
            FailWritten(c) =>
              IF server = "common"
              THEN pc' = "recv" /\ client_sock' = c /\ sock'[c].state = "open"
              ELSE pc' = "exit" /\ client_sock' = c /\ action' = "CLOSE"
       /\ (server = "app" /\ pc = "exit" /\ action = "CLOSE" /\ pc' # "exit")
            => sock'[client_sock].state = "closed"]_vars

\* the two-phase server has answered a NEW_BETS with BETS_RECV_FAIL and the
\* next one on the same connection with BETS_RECV_SUCCESS
C7_witness ==
    \E c \in Socks :
      /\ server = "common"
      /\ sock[c].tx = << BetsRecvFail_write_to, BetsRecvSuccess_write_to >>

\* C8: every accepted socket is closed exactly once: none is closed twice, and
\* none is open without a handler, queue or loop that will close it.
C8_closed_exactly_once ==
    \A c \in Socks :
      /\ sock[c].closes <= 1
      /\ sock[c].state = "open" => Owned(c)

\* C9: after a raffle has run, also one that raised, an agency that finished
\* and asks for its winners over a live connection is written a WINNERS frame.
C9_failed_raffle_still_answers ==
    (/\ server = "common"
     /\ pc = "exit"
     /\ last_recv.st = "ok"
     /\ last_recv.opcode = REQUEST_WINNERS
     /\ last_recv.agency_id \in finished_ids
     /\ raffles > 0
     /\ ~sock[client_sock].peer_closed)
      => WinnersLast(client_sock)

\* C10 (as claimed): while a connection is open in READING the server can
\* accept another one that the agencies open.
C10_accepts_while_reading ==
    (pc = "recv" /\ listening /\ used.conns < ConnLimit)
      => ENABLED accept_new_connection

\* C10 (amended): connections are served one at a time: a connection is
\* accepted only when no session is being served, and while one is in READING
\* no other is accepted.
C10_one_session_at_a_time ==
    [][used'.conns # used.conns => (client_sock = 0 /\ pc = "accept")]_vars

\* the second connection is being served, after the first one was
C10_witness ==
    /\ client_sock = 2
    /\ pc = "recv"
    /\ sock[1].state # "none"

\* C11: once the server has stopped, no connection whose FINISHED was accepted
\* is left open: each was answered with WINNERS and closed, or closed on
\* shutdown.
C11_no_finished_socket_left_at_stop ==
    pc = "done" => \A c \in Socks : sock[c].fin # << >> => sock[c].state = "closed"

\* the step writes BETS_RECV_SUCCESS to socket c
SuccessWritten(c) == sock'[c].tx = Append(sock[c].tx, BetsRecvSuccess_write_to)

\* C12: BETS_RECV_SUCCESS is written only by a step in which store_bets has
\* stored the batch just decoded from that connection, and what is stored
\* stays stored, so the raffle finds every acknowledged batch.
C12_ack_only_after_store ==
    [][/\ \A c \in Socks :
            SuccessWritten(c) =>
              /\ c = client_sock
              /\ \E r \in {recv_msg(server, rx)} :
                   /\ r.st = "ok"
                   /\ r.msg.opcode = NEW_BETS
                   /\ store' = store \o to_utils_bets(r.msg.bets)
       /\ Len(store') >= Len(store)
       /\ SubSeq(store', 1, Len(store)) = store]_vars

\* a raffle has run with an acknowledged, stored batch
C12_witness ==
    /\ raffles > 0
    /\ store # << >>
    /\ \E c \in Socks : \E i \in 1..Len(sock[c].tx) :
         sock[c].tx[i] = BetsRecvSuccess_write_to

\* C13: a recv_msg call that returned a decoded NEW_BETS has consumed exactly
\* 1 + 4 + body_length bytes of the stream.
C13_decoded_body_is_consumed_exactly ==
    (last_recv.st = "ok" /\ last_recv.opcode = NEW_BETS)
      => last_recv.consumed = 1 + 4 + last_recv.length

\* a NEW_BETS frame that carries bets has been decoded
C13_witness ==
    /\ last_recv.st = "ok"
    /\ last_recv.opcode = NEW_BETS
    /\ last_recv.length > 4

\* the bets of the agencies' frames as the agencies mean them
Sent1W == [agency |-> 1, document |-> << 49, 48 >>, number |-> 7]
Sent1L == [agency |-> 1, document |-> << 49, 49 >>, number |-> 8]
Sent2W == [agency |-> 2, document |-> << 50, 48 >>, number |-> 7]

\* the bets on the wire in a well-formed NEW_BETS frame of the agencies
WireBets(f) ==
    IF f = NewBetsFrame(<< Bet1W >>) THEN << Sent1W >>
    ELSE IF f = NewBetsFrame(<< Bet1L, Bet2W >>) THEN << Sent1L, Sent2W >>
    ELSE << >>

\* C14: when the handler reads a valid NEW_BETS frame and stores or
\* acknowledges it, the store grows by exactly the bets of that frame, in the
\* order of the wire, after the bets of the frames before it.
C14_stored_bets_are_the_wire_bets ==
    [][\A f \in BetFrames \cup {EmptyBetsFrame} :
         (pc = "recv" /\ rx = f /\ (store' # store \/ SuccessWritten(client_sock)))
           => store' = store \o WireBets(f)]_vars

\* two frames of one connection are in the store, in frame and in-frame order
C14_witness ==
    /\ store = << Sent1W, Sent1L, Sent2W >>
    /\ used.conns = 1

\* C15: a WINNERS frame has been written to a connection only if the raffle
\* has run behind its barrier (the expected number of distinct agencies have
\* finished) and the agency it answers has sent FINISHED.
C15_winners_only_after_barrier ==
    \A c \in Socks :
      WinnersWritten(c) # {} =>
        /\ raffles > 0
        /\ server = "common" => raffle_done
        /\ Cardinality(Finishers) >= Expected
        /\ server = "app" => sock[c].fin # << >>
        /\ (server = "common" /\ c = client_sock /\ pc = "exit")
             => last_recv.agency_id \in finished_ids

\* the step is not a SIGTERM delivery
NoSigterm == used'.sigterms = used.sigterms

\* the queue of app/net.py only grew at its tail in the step
Appended == Len(finished') >= Len(finished) /\ SubSeq(finished', 1, Len(finished)) = finished

\* C16 (as claimed): without SIGTERM the record of finished agencies only
\* grows: no step removes an entry.
C16_finished_only_grows ==
    [][NoSigterm => (finished_ids \subseteq finished_ids' /\ Appended)]_vars

\* C16 (amended): without SIGTERM the set of the two-phase server only grows;
\* the queue of the one-shot server only grows at its tail, except that the
\* distribution loop, after the raffle has run, pops its head to answer it.
C16_finished_grows_until_distributed ==
    [][NoSigterm =>
         /\ finished_ids \subseteq finished_ids'
         /\ \/ Appended
            \/ (server = "app" /\ pc = "dist_pop" /\ raffles > 0
                  /\ finished' = Tail(finished))]_vars

\* the distribution loop has popped one of two queued agencies, with no SIGTERM
C16_witness ==
    /\ pc = "dist_send"
    /\ finished # << >>
    /\ used.sigterms = 0

\* C17: in every WINNERS frame written, the body_length field of the header
\* equals the number of bytes that follow the header.
C17_winners_length_is_body_bytes ==
    \A c \in Socks : \A i \in WinnersWritten(c) :
      FromLE32(SubSeq(sock[c].tx[i], 2, 5)) = Len(sock[c].tx[i]) - 5

\* C18 (as claimed): every frame written carries opcode 1 or 2 with an empty
\* body or, with a body, the WINNERS opcode 5, and every frame accepted carries
\* opcode 0, 3 or 4.
C18_one_opcode_table ==
    /\ \A c \in Socks : \A i \in 1..Len(sock[c].tx) :
         IF Len(sock[c].tx[i]) > 5 THEN sock[c].tx[i][1] = 5
         ELSE sock[c].tx[i][1] \in {1, 2}
    /\ last_recv.st = "ok" => last_recv.opcode \in {0, 3, 4}

\* C18 (amended): the two-phase server uses the table 0 NEW_BETS, 1
\* BETS_RECV_SUCCESS, 2 BETS_RECV_FAIL, 3 FINISHED, 4 REQUEST_WINNERS, 5
\* WINNERS; the one-shot server uses 0..3 alike, writes WINNERS with opcode 4
\* and accepts no REQUEST_WINNERS.
C18_opcode_table_by_server ==
    /\ \A c \in Socks : \A i \in 1..Len(sock[c].tx) :
         IF Len(sock[c].tx[i]) > 5
         THEN sock[c].tx[i][1] = (IF server = "common" THEN 5 ELSE 4)
         ELSE sock[c].tx[i][1] \in {1, 2}
    /\ last_recv.st = "ok" =>
         last_recv.opcode \in (IF server = "common" THEN {0, 3, 4} ELSE {0, 3})

\* the two-phase server has written a WINNERS frame
C18_witness ==
    /\ server = "common"
    /\ \E c \in Socks : \E i \in 1..Len(sock[c].tx) : Len(sock[c].tx[i]) > 5

\* the two-phase handler has just processed a REQUEST_WINNERS and is about to
\* close the connection
Requested ==
    /\ server = "common"
    /\ pc = "exit"
    /\ last_recv.st = "ok"
    /\ last_recv.opcode = REQUEST_WINNERS

\* C19 (as claimed): a REQUEST_WINNERS(A) of an agency A that has sent FINISHED,
\* over a live connection, is not closed without a reply: when the handler
\* leaves its loop to close, a WINNERS frame has been written.
C19_request_is_never_closed_unanswered ==
    (Requested /\ last_recv.agency_id \in finished_ids
       /\ ~sock[client_sock].peer_closed)
      => WinnersLast(client_sock)

\* C19 (amended): a REQUEST_WINNERS(A) is answered with a WINNERS frame before
\* the close if the raffle is done and A has sent FINISHED (and the peer is
\* there to be written to); otherwise it does not wait: the connection is
\* closed with no WINNERS frame written.
C19_request_answered_iff_raffle_done ==
    Requested =>
      /\ (raffle_done /\ last_recv.agency_id \in finished_ids
            /\ ~sock[client_sock].peer_closed)
           => WinnersLast(client_sock)
      /\ ~(raffle_done /\ last_recv.agency_id \in finished_ids)
           => WinnersWritten(client_sock) = {}

\* a request of a finished agency has been answered after the raffle
C19_witness ==
    /\ Requested
    /\ raffle_done
    /\ last_recv.agency_id \in finished_ids
    /\ WinnersLast(client_sock)

\* C20: a receive that fails in the transport (a timeout or an OS-level error
\* of recv_into, reported by recv_exactly) ends the read loop: the handler is
\* never back at recv_msg on the connection whose receive has failed.
C20_recv_failure_ends_session == last_recv.st = "terr" => pc # "recv"

\* C21: once SIGTERM has been handled the stop flag is set and the listening
\* socket is closed, no connection is accepted any more, and an accept that was
\* blocked or is attempted afterwards ends run() normally: the OSError of the
\* closed listening socket leaves the loop and does not propagate.
C21_sigterm_stops_accepting ==
    [][used'.sigterms > 0 =>
         /\ ~running'
         /\ ~listening'
         /\ used'.conns = used.conns
         /\ (pc = "accept" /\ pc' # "accept") => pc' = "done"]_vars

\* SIGTERM was handled while accept() was blocked: the stop flag is set and the
\* accept is about to be retried on the closed listening socket
C21_witness ==
    /\ used.sigterms > 0
    /\ pc = "accept"
    /\ ~listening
    /\ ~running

\* C22: once a FINISHED frame has been processed on a connection the server
\* reads and processes no further frame from it: the handler is never back at
\* recv_msg on that connection, nothing more is decoded from it and no bet is
\* stored for the rest of its session.
C22_nothing_read_after_finished ==
    [][(last_recv.st = "ok" /\ last_recv.opcode = FINISHED) =>
         /\ pc # "recv"
         /\ store' = store
         /\ last_recv' \in {last_recv, NoRecv}]_vars

\* a FINISHED has been processed on a connection that had a batch stored before
\* it; the handler leaves the connection while the agency keeps its end open
\* and has frames left to write
C22_witness ==
    /\ last_recv.st = "ok"
    /\ last_recv.opcode = FINISHED
    /\ pc = "exit"
    /\ store # << >>
    /\ sock[client_sock].state = "open"
    /\ ~sock[client_sock].peer_closed
    /\ used.frames < FrameLimit

\* C23: every NEW_BETS message recv_msg returns has msg.amount equal to the
\* number of bets in msg.bets, and msg.amount is not negative, whatever the
\* n_bets field on the wire is.
C23_amount_is_the_number_of_bets ==
    (last_recv.st = "ok" /\ last_recv.opcode = NEW_BETS)
      => (last_recv.amount = last_recv.bets /\ last_recv.amount >= 0)

\* C24: when recv_msg rejects a frame outside the NEW_BETS body parse (an
\* unknown opcode, or a FINISHED or REQUEST_WINNERS whose body_length is not
\* 4) and the handler is back at recv_msg on the same connection, the rejected
\* call has consumed the header and the whole declared body, so the next call
\* starts at the first byte of the next frame.
C24_rejected_frame_is_consumed_whole ==
    (/\ pc = "recv"
     /\ last_recv.st = "perr"
     /\ last_recv.opcode # NEW_BETS
     /\ last_recv.length >= 0)
      => last_recv.consumed = 1 + 4 + last_recv.length

\* C25: with SIGTERM delivered at any point of the distribution of the
\* one-shot server, the distribution loop never pops from an empty queue, so no
\* unhandled error escapes run(), and the socket of every entry that has left
\* the queue is closed once, by the loop or by the SIGTERM handler, never twice.
C25_sigterm_during_distribution_is_safe ==
    server = "app" =>
      /\ pc # "crashed"
      /\ \A c \in Socks : sock[c].closes <= 1

\* the main thread of the one-shot server is outside __process_msg
NotProcessing == pc \in {"start", "loop", "accept", "recv", "exit", "done"}

\* C26: in the one-shot server, whenever no message is being processed, the
\* queue _finished holds fewer than clients_amount entries, and every socket in
\* it is open and has not been written a WINNERS frame.
C26_pending_queue_is_short_and_unanswered ==
    (server = "app" /\ NotProcessing) =>
      /\ Len(finished) < clients_amount
      /\ \A i \in 1..Len(finished) :
           /\ sock[finished[i][2]].state = "open"
           /\ WinnersWritten(finished[i][2]) = {}

\* an agency waits in the queue while the server reads from another connection
C26_witness ==
    /\ server = "app"
    /\ pc = "recv"
    /\ Len(finished) >= 1
    /\ finished[1][2] # client_sock

=============================================================================
